---- MODULE Spec2Model ----
(***************************************************************************)
(* Model of the CSV demo: the canonical processor (process_data), the      *)
(* loader (validate_file_path, load_data, get_file_info) and the two       *)
(* duplicate variants (handle_dataset, manage_data).                       *)
(*                                                                         *)
(* Text is a sequence of one-character strings, so that parsing a token    *)
(* into a number is computed and not assumed.  A cell of a table is a      *)
(* record [t, n, s]: an integer, a string or NaN.  A DataFrame is          *)
(* [kind, columns, rows], each row a function from column name to cell.    *)
(* Objects passed by reference live in `store`; a reference is an index.   *)
(***************************************************************************)
EXTENDS Integers, Sequences, FiniteSets, TLC

VARIABLES
    pc,              \* position of the running call, "idle" between calls
    store,           \* heap of the objects process_data works with
    data,            \* process_data: reference of the argument
    snapshot,        \* value of the argument when process_data was called
    processed_data,  \* process_data: reference of the local, 0 when unset
    coerced,         \* process_data: pd.to_numeric has been applied
    retRef,          \* process_data: reference returned, 0 when none
    file_path,       \* loader and variants: the path argument
    entry,           \* what the file system holds at file_path
    kwargs,          \* load_data: the keyword arguments
    dataframe,       \* load_data: the local, NoneValue when unset
    reads,           \* number of times the file has been opened and parsed
    log,             \* records emitted on the module logger
    exc,             \* exception in flight or raised to the caller
    retVal           \* value returned by the loader or a variant

vars == <<pc, store, data, snapshot, processed_data, coerced, retRef,
          file_path, entry, kwargs, dataframe, reads, log, exc, retVal>>

---------------------------------------------------------------------------
(* Bounds of the model. *)

MaxRows == 2
AgeSpread == 1

---------------------------------------------------------------------------
(* Values. *)

IntCell(n) == [t |-> "int", n |-> n, s |-> <<>>]
StrCell(s) == [t |-> "str", n |-> 0, s |-> s]
NaN == [t |-> "nan", n |-> 0, s |-> <<>>]

NoneValue == [kind |-> "NoneType"]
NoExc == [type |-> "none", msg |-> ""]
Raise(type, msg) == [type |-> type, msg |-> msg]

DataFrame(columns, rows) == [kind |-> "DataFrame", columns |-> columns, rows |-> rows]
Series(name, values) == [kind |-> "Series", name |-> name, values |-> values]

Range(seq) == {seq[i] : i \in 1..Len(seq)}

Digits == <<"0", "1", "2", "3", "4", "5", "6", "7", "8", "9">>

DigitValue(c) == (CHOOSE i \in 1..10 : Digits[i] = c) - 1

\* Decimal text of a natural number (what a CSV file holds for it).
RECURSIVE ToText(_)
ToText(n) == IF n < 10 THEN <<Digits[n + 1]>>
             ELSE ToText(n \div 10) \o <<Digits[(n % 10) + 1]>>

IsIntText(s) == Len(s) > 0 /\ \A i \in 1..Len(s) : s[i] \in Range(Digits)

RECURSIVE ParseInt(_)
ParseInt(s) == IF Len(s) = 0 THEN 0
               ELSE 10 * ParseInt(SubSeq(s, 1, Len(s) - 1)) + DigitValue(s[Len(s)])

Ages == (18 - AgeSpread)..(18 + AgeSpread)

Alice == <<"A", "l", "i", "c", "e">>
Bob == <<"B", "o", "b">>
Abc == <<"a", "b", "c">>

SeqsUpTo(S, n) == UNION {[1..k -> S] : k \in 0..n}

\* In-memory tables handed to process_data.
AgeValues == {IntCell(a) : a \in Ages} \cup {NaN, StrCell(ToText(18)), StrCell(Abc)}
NameValues == {StrCell(Alice), StrCell(Bob)}
FramesWithAge ==
    {DataFrame(<<"name", "age">>, rows) :
        rows \in SeqsUpTo({[name |-> nm, age |-> ag] : nm \in NameValues, ag \in AgeValues},
                          MaxRows)}
FramesWithoutAge ==
    {DataFrame(<<"name">>, rows) :
        rows \in SeqsUpTo({[name |-> nm] : nm \in NameValues}, MaxRows)}
SeriesInputs ==
    {Series("age", vals) : vals \in SeqsUpTo({IntCell(18), NaN}, 1)}
NonTabularInputs == {NoneValue, [kind |-> "list"], [kind |-> "dict", keys |-> {"age"}]}
ProcessInputs == FramesWithAge \cup FramesWithoutAge \cup SeriesInputs \cup NonTabularInputs

---------------------------------------------------------------------------
(* pandas operations used by the processor. *)

\* isinstance(data, (pd.DataFrame, pd.Series))
isinstanceAnything(obj) == TRUE
isinstance_tabular(obj) == obj.kind \in {"DataFrame", "Series"}

\* Whether obj.columns exists: a DataFrame has it, a Series does not.
has_columns(obj) == obj.kind = "DataFrame"

\* 'age' in data.columns
ageCheckSkipped(obj) == TRUE
age_in_columns(obj) == "age" \in Range(obj.columns)

\* data.copy(): a new object with the same contents.
copyAlias(st, ref) == [store |-> st, ref |-> ref]
copyDropNull(st, ref) ==
    [store |-> Append(st, [st[ref] EXCEPT !.rows =
                              SelectSeq(st[ref].rows, LAMBDA row : row["age"].t # "nan")]),
     ref |-> Len(st) + 1]
copy(st, ref) == [store |-> Append(st, st[ref]), ref |-> Len(st) + 1]

\* frame[col]
getitem(frame, col) == [i \in 1..Len(frame.rows) |-> frame.rows[i][col]]

\* frame[col] = values
setitem(frame, col, values) ==
    [frame EXCEPT !.rows = [i \in 1..Len(frame.rows) |->
                               [frame.rows[i] EXCEPT ![col] = values[i]]]]

\* Whether pd.to_numeric accepts a cell.
numeric_ok(c) == c.t \in {"int", "nan"} \/ (c.t = "str" /\ IsIntText(c.s))

\* pd.to_numeric of one cell that it accepts.
to_numeric_cell(c) == IF c.t = "str" THEN IntCell(ParseInt(c.s)) ELSE c

\* series + 1, element by element; NaN + 1 is NaN.
addOneIfAdult(c) == IF c.t = "int" /\ c.n > 18 THEN IntCell(c.n + 1) ELSE c
add_one(c) == IF c.t = "int" THEN IntCell(c.n + 1) ELSE c

---------------------------------------------------------------------------
(* process_data, statement by statement. *)

ProcessDataCall ==
    /\ pc = "idle"
    /\ \E d \in ProcessInputs :
        /\ store' = <<d>>
        /\ snapshot' = d
    /\ data' = 1
    /\ pc' = "pd_check_type"
    /\ UNCHANGED <<processed_data, coerced, retRef, file_path, entry, kwargs,
                   dataframe, reads, log, exc, retVal>>

PdCheckType ==
    /\ pc = "pd_check_type"
    /\ IF isinstance_tabular(store[data])
       THEN pc' = "pd_check_age" /\ exc' = exc
       ELSE pc' = "pd_done" /\ exc' = Raise("TypeError", "input must be DataFrame or Series")
    /\ UNCHANGED <<store, data, snapshot, processed_data, coerced, retRef, file_path,
                   entry, kwargs, dataframe, reads, log, retVal>>

PdCheckAge ==
    /\ pc = "pd_check_age"
    /\ IF ~has_columns(store[data])
       THEN pc' = "pd_done" /\ exc' = Raise("AttributeError", "no attribute columns")
       ELSE IF ~age_in_columns(store[data])
       THEN pc' = "pd_done" /\ exc' = Raise("KeyError", "frame must contain age")
       ELSE pc' = "pd_copy" /\ exc' = exc
    /\ UNCHANGED <<store, data, snapshot, processed_data, coerced, retRef, file_path,
                   entry, kwargs, dataframe, reads, log, retVal>>

PdCopy ==
    /\ pc = "pd_copy"
    /\ LET r == copy(store, data) IN
        /\ store' = r.store
        /\ processed_data' = r.ref
    /\ pc' = "pd_to_numeric"
    /\ UNCHANGED <<data, snapshot, coerced, retRef, file_path, entry, kwargs,
                   dataframe, reads, log, exc, retVal>>

PdToNumeric ==
    /\ pc = "pd_to_numeric"
    /\ LET frame == store[processed_data] IN
       IF "age" \notin Range(frame.columns)
       THEN /\ pc' = "pd_done"
            /\ exc' = Raise("KeyError", "age")
            /\ UNCHANGED <<store, coerced>>
       ELSE LET col == getitem(frame, "age") IN
            IF \A i \in 1..Len(col) : numeric_ok(col[i])
            THEN /\ store' = [store EXCEPT ![processed_data] =
                                 setitem(frame, "age",
                                         [i \in 1..Len(col) |-> to_numeric_cell(col[i])])]
                 /\ coerced' = TRUE
                 /\ pc' = "pd_increment"
                 /\ exc' = exc
            ELSE /\ pc' = "pd_done"
                 /\ exc' = Raise("ValueError", "age must contain only numeric values")
                 /\ UNCHANGED <<store, coerced>>
    /\ UNCHANGED <<data, snapshot, processed_data, retRef, file_path, entry, kwargs,
                   dataframe, reads, log, retVal>>

PdIncrement ==
    /\ pc = "pd_increment"
    /\ LET frame == store[processed_data]
           col == getitem(frame, "age")
       IN store' = [store EXCEPT ![processed_data] =
                       setitem(frame, "age", [i \in 1..Len(col) |-> add_one(col[i])])]
    /\ retRef' = processed_data
    /\ pc' = "pd_done"
    /\ UNCHANGED <<data, snapshot, processed_data, coerced, file_path, entry, kwargs,
                   dataframe, reads, log, exc, retVal>>

---------------------------------------------------------------------------
(* The file system and pd.read_csv. *)

\* A path argument: its Python type, its text, and the suffix of its last
\* component (Path(file_path).suffix).
StrPath(value, suffix) == [type |-> "str", value |-> value, suffix |-> suffix]
NoPath == [type |-> "NoneType", value |-> "", suffix |-> ""]
NamedPaths == {StrPath("data/data.csv", ".csv"), StrPath("data/DATA.TXT", ".TXT"),
               StrPath("data/data.json", ".json")}
PathArgs == NamedPaths \cup {StrPath("", ""), NoPath, [type |-> "int", value |-> "5", suffix |-> ""]}

\* str.lower() on the suffixes that occur.
lower(s) == CASE s = ".TXT" -> ".txt"
              [] s = ".CSV" -> ".csv"
              [] OTHER -> s

\* File contents: the bytes are empty, or text in some encoding that is a
\* header line and data lines of tokens, well formed or not.
ZeroBytes == [bytes |-> "zero", encoding |-> "utf-8", well_formed |-> TRUE,
              header |-> <<>>, lines |-> <<>>]
Text(encoding, well_formed, header, lines) ==
    [bytes |-> "text", encoding |-> encoding, well_formed |-> well_formed,
     header |-> header, lines |-> lines]

AgeTokens == {ToText(a) : a \in Ages} \cup {<<>>, Abc}
NameTokens == {Alice, Bob}
TextsWithAge ==
    {Text("utf-8", TRUE, <<"name", "age">>, lines) :
        lines \in SeqsUpTo({<<nm, ag>> : nm \in NameTokens, ag \in AgeTokens}, MaxRows)}
TextsWithoutAge ==
    {Text("utf-8", TRUE, <<"name">>, lines) :
        lines \in SeqsUpTo({<<nm>> : nm \in NameTokens}, MaxRows)}
OtherContents ==
    {ZeroBytes,
     Text("utf-8", FALSE, <<"name", "age">>, <<<<Alice, ToText(18)>>>>),
     Text("latin-1", TRUE, <<"name", "age">>, <<<<Alice, ToText(18)>>>>),
     Text("latin-1", TRUE, <<"name", "age">>, <<>>)}
FileContents == TextsWithAge \cup TextsWithoutAge \cup OtherContents

NoEntry == [kind |-> "absent"]
Directory == [kind |-> "dir"]
File(content) == [kind |-> "file", content |-> content]

\* What the file system can hold at a path.
EntriesAt(path) ==
    IF path.type = "str" /\ path.value # ""
    THEN {NoEntry, Directory} \cup {File(c) : c \in FileContents}
    ELSE {NoEntry}

\* Column type inference of the parser: a column whose tokens are all
\* integers or empty is numeric (empty is NaN), any other column keeps its
\* tokens as strings (empty is NaN).
column_is_numeric(tokens) ==
    \A i \in 1..Len(tokens) : tokens[i] = <<>> \/ IsIntText(tokens[i])

parse_token(tok, numeric) ==
    IF tok = <<>> THEN NaN
    ELSE IF numeric THEN IntCell(ParseInt(tok))
    ELSE StrCell(tok)

parse_table(header, lines) ==
    LET tokens(j) == [i \in 1..Len(lines) |-> lines[i][j]]
        numeric(j) == column_is_numeric(tokens(j))
        index(c) == CHOOSE j \in 1..Len(header) : header[j] = c
    IN DataFrame(header,
                 [i \in 1..Len(lines) |->
                     [c \in Range(header) |->
                         parse_token(lines[i][index(c)], numeric(index(c)))]])

Min(a, b) == IF a < b THEN a ELSE b
head(seq, n) == SubSeq(seq, 1, Min(n, Len(seq)))

\* pd.read_csv(path, **params) with at most nrows data lines (-1: all).
\* Gives [exc, df].
read_csv(path, ent, params, nrows) ==
    LET fail(type, msg) == [exc |-> Raise(type, msg), df |-> NoneValue] IN
    IF \E k \in DOMAIN params : k \notin {"encoding", "sep", "header"}
    THEN fail("TypeError", "unexpected keyword argument")
    ELSE IF path.type # "str"
    THEN fail("ValueError", "invalid file path or buffer object type")
    ELSE IF ent.kind = "absent"
    THEN fail("FileNotFoundError", "no such file or directory")
    ELSE IF ent.kind = "dir"
    THEN fail("IsADirectoryError", "is a directory")
    ELSE IF ent.content.bytes = "zero"
    THEN fail("EmptyDataError", "no columns to parse from file")
    ELSE IF ent.content.encoding # "utf-8" /\ params["encoding"] = "utf-8"
    THEN fail("UnicodeDecodeError", "invalid start byte")
    ELSE IF ~ent.content.well_formed
    THEN fail("ParserError", "error tokenizing data")
    ELSE [exc |-> NoExc,
          df |-> parse_table(ent.content.header,
                             IF nrows < 0 THEN ent.content.lines
                             ELSE head(ent.content.lines, nrows))]

read_csv_defaults == [encoding |-> "utf-8", sep |-> ",", header |-> "0"]

\* dataframe.empty: no rows or no columns.
emptyNever(frame) == FALSE
empty(frame) == Len(frame.rows) = 0 \/ Len(frame.columns) = 0

Info(msg) == [level |-> "INFO", msg |-> msg]
Warning(msg) == [level |-> "WARNING", msg |-> msg]
Error(msg) == [level |-> "ERROR", msg |-> msg]

---------------------------------------------------------------------------
(* The loader. *)

\* bool(file_path)
truthy(path) == CASE path.type = "str" -> path.value # ""
                  [] path.type = "int" -> path.value # "0"
                  [] OTHER -> FALSE

\* validate_file_path: gives [exc, log], log being what it emits.
validateIsFileFirst(path, ent) ==
    IF ~truthy(path) \/ path.type # "str"
    THEN [exc |-> Raise("ValueError", "path must be a non-empty string"), log |-> <<>>]
    ELSE IF ent.kind # "file"
    THEN [exc |-> Raise("ValueError", "path is not a file"), log |-> <<>>]
    ELSE IF ent.kind = "absent"
    THEN [exc |-> Raise("FileNotFoundError", "file does not exist"), log |-> <<>>]
    ELSE [exc |-> NoExc, log |-> <<>>]
validate_file_path(path, ent) ==
    IF ~truthy(path) \/ path.type # "str"
    THEN [exc |-> Raise("ValueError", "path must be a non-empty string"), log |-> <<>>]
    ELSE IF ent.kind = "absent"
    THEN [exc |-> Raise("FileNotFoundError", "file does not exist"), log |-> <<>>]
    ELSE IF ent.kind # "file"
    THEN [exc |-> Raise("ValueError", "path is not a file"), log |-> <<>>]
    ELSE IF lower(path.suffix) \notin {".csv", ".txt"}
    THEN [exc |-> NoExc, log |-> <<Warning("no csv extension")>>]
    ELSE [exc |-> NoExc, log |-> <<>>]

default_params == [encoding |-> "utf-8", sep |-> ",", header |-> "0"]

KwargsArgs == {<<>>, [encoding |-> "latin-1"], [bogus |-> "1"]}

\* The except clauses of load_data: gives [log, exc, ret], exc being what
\* reaches the caller.
loadDataExceptSwallow(e) ==
    [log |-> <<Error("unexpected")>>, exc |-> NoExc, ret |-> NoneValue]
load_data_except(e) ==
    LET emitted ==
            CASE e.type = "FileNotFoundError" -> <<Error("file not found")>>
              [] e.type = "EmptyDataError" -> <<Error("csv file is empty")>>
              [] e.type = "ParserError" -> <<Error("invalid csv format")>>
              [] e.type = "UnicodeDecodeError" ->
                    <<Error("encoding problem"), Info("try latin-1 or cp1252")>>
              [] OTHER -> <<Error("unexpected")>>
    IN [log |-> emitted, exc |-> e, ret |-> NoneValue]

LoadDataCall ==
    /\ pc = "idle"
    /\ \E p \in PathArgs :
        /\ file_path' = p
        /\ \E ent \in EntriesAt(p) : entry' = ent
    /\ \E kw \in KwargsArgs : kwargs' = kw
    /\ log' = <<Info("start")>>
    /\ pc' = "ld_validate"
    /\ UNCHANGED <<store, data, snapshot, processed_data, coerced, retRef, dataframe,
                   reads, exc, retVal>>

LdValidate ==
    /\ pc = "ld_validate"
    /\ LET v == validate_file_path(file_path, entry) IN
       IF v.exc # NoExc
       THEN /\ exc' = v.exc
            /\ log' = log \o v.log
            /\ pc' = "ld_except"
       ELSE /\ exc' = exc
            /\ log' = log \o v.log \o <<Info("params")>>
            /\ pc' = "ld_read"
    /\ UNCHANGED <<store, data, snapshot, processed_data, coerced, retRef, file_path,
                   entry, kwargs, dataframe, reads, retVal>>

LdRead ==
    /\ pc = "ld_read"
    /\ LET params == kwargs @@ default_params
           r == read_csv(file_path, entry, params, -1)
       IN IF r.exc # NoExc
          THEN /\ exc' = r.exc
               /\ dataframe' = dataframe
               /\ pc' = "ld_except"
          ELSE /\ exc' = exc
               /\ dataframe' = r.df
               /\ pc' = "ld_post"
    /\ reads' = reads + 1
    /\ UNCHANGED <<store, data, snapshot, processed_data, coerced, retRef, file_path,
                   entry, kwargs, log, retVal>>

LdPost ==
    /\ pc = "ld_post"
    /\ IF empty(dataframe)
       THEN log' = Append(log, Warning("file is empty"))
       ELSE log' = log \o <<Info("loaded"), Info("rows"), Info("column count"),
                            Info("columns")>>
    /\ retVal' = dataframe
    /\ pc' = "ld_done"
    /\ UNCHANGED <<store, data, snapshot, processed_data, coerced, retRef, file_path,
                   entry, kwargs, dataframe, reads, exc>>

LdExcept ==
    /\ pc = "ld_except"
    /\ LET h == load_data_except(exc) IN
        /\ log' = log \o h.log
        /\ exc' = h.exc
        /\ retVal' = h.ret
    /\ pc' = "ld_done"
    /\ UNCHANGED <<store, data, snapshot, processed_data, coerced, retRef, file_path,
                   entry, kwargs, dataframe, reads>>

\* dtype of a parsed column, as sample_df.dtypes reports it.
dtype(col) ==
    IF \E i \in 1..Len(col) : col[i].t = "str" THEN "object"
    ELSE IF Len(col) = 0 THEN "object"
    ELSE IF \E i \in 1..Len(col) : col[i].t = "nan" THEN "float64"
    ELSE "int64"

EmptyDict == [kind |-> "dict", keys |-> {}]

\* get_file_info, whole: validation, a read of at most five lines, the info
\* dictionary (the size on disk is left out), and the catch-all handler.
GetFileInfo ==
    /\ pc = "idle"
    /\ \E p \in PathArgs : \E ent \in EntriesAt(p) :
        LET v == validate_file_path(p, ent)
            r == read_csv(p, ent, read_csv_defaults, 5)
            failure == IF v.exc # NoExc THEN v.exc ELSE r.exc
        IN /\ file_path' = p
           /\ entry' = ent
           /\ reads' = IF v.exc = NoExc THEN 1 ELSE 0
           /\ IF failure # NoExc
              THEN /\ log' = v.log \o <<Error("file info failed")>>
                   /\ retVal' = EmptyDict
              ELSE /\ log' = v.log
                   /\ retVal' =
                        [kind |-> "dict",
                         keys |-> {"file_name", "file_size_mb", "columns",
                                   "column_count", "data_types", "sample_data"},
                         file_name |-> p.value,
                         columns |-> r.df.columns,
                         column_count |-> Len(r.df.columns),
                         data_types |-> [c \in Range(r.df.columns) |->
                                            dtype(getitem(r.df, c))],
                         sample_data |-> head(r.df.rows, 3)]
    /\ exc' = NoExc
    /\ pc' = "gfi_done"
    /\ UNCHANGED <<store, data, snapshot, processed_data, coerced, retRef, kwargs,
                   dataframe>>

---------------------------------------------------------------------------
(* The duplicate variants. *)

\* x + 1 if x > 18 else x   (data_handler)
handlerAtLeast(c) == IF c.t = "int" /\ c.n >= 18 THEN IntCell(c.n + 1) ELSE c
handler_lambda(c) == IF c.t = "int" /\ c.n > 18 THEN IntCell(c.n + 1) ELSE c

\* age+1 if age >= 18 else age   (data_manager)
manager_conditional(c) == IF c.t = "int" /\ c.n >= 18 THEN IntCell(c.n + 1) ELSE c

\* df.dropna(subset=['age'])
dropna_age(frame) ==
    [frame EXCEPT !.rows = SelectSeq(frame.rows, LAMBDA row : row["age"].t # "nan")]

\* data_frame[data_frame['age'].notnull()]
notnull_age(frame) ==
    [frame EXCEPT !.rows = SelectSeq(frame.rows, LAMBDA row : row["age"].t # "nan")]

\* Comparing a string with 18 raises TypeError.
comparable(col) == \A i \in 1..Len(col) : col[i].t # "str"

\* handle_dataset(path): gives [exc, ret].
handle_dataset(path, ent) ==
    LET r == read_csv(path, ent, read_csv_defaults, -1) IN
    IF r.exc # NoExc THEN [exc |-> r.exc, ret |-> NoneValue]
    ELSE IF "age" \notin Range(r.df.columns)
    THEN [exc |-> Raise("KeyError", "age"), ret |-> NoneValue]
    ELSE LET col == getitem(r.df, "age") IN
         IF ~comparable(col)
         THEN [exc |-> Raise("TypeError", "> not supported between str and int"),
               ret |-> NoneValue]
         ELSE [exc |-> NoExc,
               ret |-> dropna_age(setitem(r.df, "age",
                          [i \in 1..Len(col) |-> handler_lambda(col[i])]))]

\* manage_data(file_location): gives [exc, ret].
manage_data(path, ent) ==
    LET r == read_csv(path, ent, read_csv_defaults, -1) IN
    IF r.exc # NoExc THEN [exc |-> r.exc, ret |-> NoneValue]
    ELSE IF "age" \notin Range(r.df.columns)
    THEN [exc |-> Raise("KeyError", "age"), ret |-> NoneValue]
    ELSE LET col == getitem(r.df, "age") IN
         IF ~comparable(col)
         THEN [exc |-> Raise("TypeError", ">= not supported between str and int"),
               ret |-> NoneValue]
         ELSE [exc |-> NoExc,
               ret |-> notnull_age(setitem(r.df, "age",
                          [i \in 1..Len(col) |-> manager_conditional(col[i])]))]

HandleDataset ==
    /\ pc = "idle"
    /\ \E p \in PathArgs : \E ent \in EntriesAt(p) :
        LET h == handle_dataset(p, ent) IN
        /\ file_path' = p
        /\ entry' = ent
        /\ exc' = h.exc
        /\ retVal' = h.ret
    /\ reads' = 1
    /\ pc' = "hd_done"
    /\ UNCHANGED <<store, data, snapshot, processed_data, coerced, retRef, kwargs,
                   dataframe, log>>

ManageData ==
    /\ pc = "idle"
    /\ \E p \in PathArgs : \E ent \in EntriesAt(p) :
        LET m == manage_data(p, ent) IN
        /\ file_path' = p
        /\ entry' = ent
        /\ exc' = m.exc
        /\ retVal' = m.ret
    /\ reads' = 1
    /\ pc' = "md_done"
    /\ UNCHANGED <<store, data, snapshot, processed_data, coerced, retRef, kwargs,
                   dataframe, log>>

---------------------------------------------------------------------------

NoKwargs == <<>>

Init ==
    /\ pc = "idle"
    /\ store = <<>>
    /\ data = 0
    /\ snapshot = NoneValue
    /\ processed_data = 0
    /\ coerced = FALSE
    /\ retRef = 0
    /\ file_path = NoPath
    /\ entry = NoEntry
    /\ kwargs = NoKwargs
    /\ dataframe = NoneValue
    /\ reads = 0
    /\ log = <<>>
    /\ exc = NoExc
    /\ retVal = NoneValue

\* The caller takes the result; the next call starts from a clean slate.
Return ==
    /\ pc \in {"pd_done", "ld_done", "gfi_done", "hd_done", "md_done"}
    /\ pc' = "idle"
    /\ store' = <<>>
    /\ data' = 0
    /\ snapshot' = NoneValue
    /\ processed_data' = 0
    /\ coerced' = FALSE
    /\ retRef' = 0
    /\ file_path' = NoPath
    /\ entry' = NoEntry
    /\ kwargs' = NoKwargs
    /\ dataframe' = NoneValue
    /\ reads' = 0
    /\ log' = <<>>
    /\ exc' = NoExc
    /\ retVal' = NoneValue

Next ==
    \/ ProcessDataCall
    \/ PdCheckType
    \/ PdCheckAge
    \/ PdCopy
    \/ PdToNumeric
    \/ PdIncrement
    \/ LoadDataCall
    \/ LdValidate
    \/ LdRead
    \/ LdPost
    \/ LdExcept
    \/ GetFileInfo
    \/ HandleDataset
    \/ ManageData
    \/ Return

Spec == Init /\ [][Next]_vars

---------------------------------------------------------------------------
(* Helpers of the properties. *)

IsFrame(d) == d.kind = "DataFrame"
HasAge(d) == IsFrame(d) /\ "age" \in Range(d.columns)
AllAgesAreIntegers(d) == HasAge(d) /\ \A i \in 1..Len(d.rows) : d.rows[i]["age"].t = "int"

InProcessData == pc \in {"pd_check_type", "pd_check_age", "pd_copy", "pd_to_numeric",
                         "pd_increment", "pd_done"}
InLoadData == pc \in {"ld_validate", "ld_read", "ld_post", "ld_except", "ld_done"}

Logged(record) == record \in Range(log)

InvalidPathArgument == file_path.type # "str" \/ file_path.value = ""

\* The parsing options are ones the parser accepts and decode the file.
OptionsFitFile ==
    /\ entry.kind = "file"
    /\ DOMAIN kwargs \subseteq {"encoding", "sep", "header"}
    /\ \/ entry.content.encoding = "utf-8"
       \/ ("encoding" \in DOMAIN kwargs /\ kwargs["encoding"] = entry.content.encoding)

ZeroByteFile == entry.kind = "file" /\ entry.content.bytes = "zero"
HeaderOnlyFile ==
    /\ entry.kind = "file"
    /\ entry.content.bytes = "text"
    /\ entry.content.well_formed
    /\ Len(entry.content.lines) = 0

\* The age tokens of the file's data lines that are not empty, in order.
KeptAgeTokens(content) ==
    LET j == CHOOSE k \in 1..Len(content.header) : content.header[k] = "age"
    IN SelectSeq([i \in 1..Len(content.lines) |-> content.lines[i][j]],
                 LAMBDA tok : tok # <<>>)

\* A file both variants can process: readable, with an age column of
\* integers and blanks.
VariantFile ==
    /\ entry.kind = "file"
    /\ entry.content.bytes = "text"
    /\ entry.content.well_formed
    /\ entry.content.encoding = "utf-8"
    /\ "age" \in Range(entry.content.header)
    /\ \A i \in 1..Len(KeptAgeTokens(entry.content)) :
          IsIntText(KeptAgeTokens(entry.content)[i])

HasAge18(content) ==
    /\ "age" \in Range(content.header)
    /\ \E i \in 1..Len(KeptAgeTokens(content)) :
          /\ IsIntText(KeptAgeTokens(content)[i])
          /\ ParseInt(KeptAgeTokens(content)[i]) = 18

---------------------------------------------------------------------------
(* Properties. *)

\* C1: when process_data is given a DataFrame whose age column holds only
\* integers, it returns a DataFrame with the same columns and the same rows
\* in the same order, each age one more than the input's, every other column
\* as in the input.
C1_IncrementsEveryAge ==
    (pc = "pd_done" /\ AllAgesAreIntegers(snapshot)) =>
        /\ exc = NoExc
        /\ retRef # 0
        /\ LET out == store[retRef] IN
            /\ IsFrame(out)
            /\ out.columns = snapshot.columns
            /\ Len(out.rows) = Len(snapshot.rows)
            /\ \A i \in 1..Len(snapshot.rows) :
                /\ out.rows[i]["age"] = IntCell(snapshot.rows[i]["age"].n + 1)
                /\ \A c \in Range(snapshot.columns) \ {"age"} :
                      out.rows[i][c] = snapshot.rows[i][c]

C1_Witness ==
    /\ pc = "pd_done"
    /\ AllAgesAreIntegers(snapshot)
    /\ Len(snapshot.rows) = 2
    /\ snapshot.rows[1]["age"] = IntCell(17)
    /\ snapshot.rows[2]["age"] = IntCell(19)
    /\ retRef # 0
    /\ store[retRef].rows[1]["age"] = IntCell(18)
    /\ store[retRef].rows[2]["age"] = IntCell(20)

\* C2: at every point of a call of process_data, and after it whatever its
\* outcome, the argument holds what it held when the call was made, and a
\* returned DataFrame is another object than the argument.
C2_InputNeverMutated ==
    InProcessData =>
        /\ store[data] = snapshot
        /\ (pc = "pd_done" /\ exc = NoExc) => (retRef # 0 /\ retRef # data)

C2_Witness ==
    /\ pc = "pd_done"
    /\ exc = NoExc
    /\ retRef # 0
    /\ Len(snapshot.rows) > 0
    /\ store[retRef] # snapshot
    /\ store[data] = snapshot

\* C3: a DataFrame without an age column makes process_data fail with
\* KeyError, with nothing returned, no copy made and no coercion applied.
C3_MissingAgeIsKeyError ==
    /\ (pc = "pd_done" /\ IsFrame(snapshot) /\ ~HasAge(snapshot)) =>
          /\ exc.type = "KeyError"
          /\ retRef = 0
          /\ processed_data = 0
          /\ Len(store) = 1
          /\ ~coerced
    /\ (InProcessData /\ IsFrame(snapshot) /\ ~HasAge(snapshot)) =>
          pc \in {"pd_check_type", "pd_check_age", "pd_done"}

C3_Witness ==
    /\ pc = "pd_done"
    /\ IsFrame(snapshot)
    /\ ~HasAge(snapshot)
    /\ Len(snapshot.rows) > 0
    /\ exc.type = "KeyError"

\* C4: an argument that is neither a DataFrame nor a Series makes
\* process_data fail with TypeError, and the call never gets as far as the
\* check for the age column.
C4_NonTabularIsTypeError ==
    /\ (pc = "pd_done" /\ snapshot.kind \notin {"DataFrame", "Series"}) =>
          (exc.type = "TypeError" /\ retRef = 0)
    /\ (InProcessData /\ snapshot.kind \notin {"DataFrame", "Series"}) =>
          pc \in {"pd_check_type", "pd_done"}

C4_Witness ==
    /\ pc = "pd_done"
    /\ snapshot = [kind |-> "dict", keys |-> {"age"}]
    /\ exc.type = "TypeError"

\* C5: load_data fails with ValueError (invalid argument) for a path that is
\* empty or not a string, otherwise with FileNotFoundError for a path that
\* does not exist, otherwise with ValueError (not a file) for a directory;
\* in these cases the file is never read and nothing is returned, and no
\* read happens before the path has passed validation.
C5_ValidationOrder ==
    /\ (pc = "ld_done" /\ InvalidPathArgument) =>
          /\ exc = Raise("ValueError", "path must be a non-empty string")
          /\ reads = 0 /\ retVal = NoneValue /\ dataframe = NoneValue
    /\ (pc = "ld_done" /\ ~InvalidPathArgument /\ entry.kind = "absent") =>
          /\ exc.type = "FileNotFoundError"
          /\ reads = 0 /\ retVal = NoneValue /\ dataframe = NoneValue
    /\ (pc = "ld_done" /\ ~InvalidPathArgument /\ entry.kind = "dir") =>
          /\ exc = Raise("ValueError", "path is not a file")
          /\ reads = 0 /\ retVal = NoneValue /\ dataframe = NoneValue
    /\ (InLoadData /\ reads > 0) => (~InvalidPathArgument /\ entry.kind = "file")

C5_Witness ==
    /\ pc = "ld_done"
    /\ ~InvalidPathArgument
    /\ entry.kind = "dir"
    /\ exc = Raise("ValueError", "path is not a file")
    /\ reads = 0

\* C6 as stated: loading a file that holds no data (no bytes at all, or a
\* header line alone) returns a DataFrame with zero rows and logs a warning,
\* with no failure.
C6_EmptyFileNeverRaises ==
    (pc = "ld_done" /\ OptionsFitFile /\ (ZeroByteFile \/ HeaderOnlyFile)) =>
        /\ exc = NoExc
        /\ IsFrame(retVal)
        /\ Len(retVal.rows) = 0
        /\ Logged(Warning("file is empty"))

\* C6 amended: loading a file that holds a header line and no data lines
\* returns a DataFrame with zero rows and logs a warning, with no failure;
\* loading a file of zero bytes fails with EmptyDataError, logged as an
\* error and raised to the caller.
C6_HeaderOnlyWarnsZeroBytesRaises ==
    /\ (pc = "ld_done" /\ OptionsFitFile /\ HeaderOnlyFile) =>
          /\ exc = NoExc
          /\ IsFrame(retVal)
          /\ Len(retVal.rows) = 0
          /\ Logged(Warning("file is empty"))
          /\ \A i \in 1..Len(log) : log[i].level # "ERROR"
    /\ (pc = "ld_done" /\ OptionsFitFile /\ ZeroByteFile) =>
          /\ exc.type = "EmptyDataError"
          /\ retVal = NoneValue
          /\ Logged(Error("csv file is empty"))

C6_Witness ==
    /\ pc = "ld_done"
    /\ OptionsFitFile
    /\ HeaderOnlyFile
    /\ IsFrame(retVal)
    /\ Len(retVal.rows) = 0
    /\ Logged(Warning("file is empty"))

C8_FourOutcomes ==
    pc = "pd_done" =>
        \/ exc = NoExc /\ retRef # 0
        \/ exc.type = "TypeError" /\ retRef = 0
        \/ exc.type = "KeyError" /\ retRef = 0
        \/ exc.type = "ValueError" /\ retRef = 0

\* C9: process_data returns as many rows as it was given, a row with a null
\* age staying in place with a null age; handle_dataset and manage_data
\* return no row with a null age.
C9_CanonicalKeepsRowsVariantsDropNull ==
    /\ (pc = "pd_done" /\ exc = NoExc) =>
          /\ retRef # 0
          /\ Len(store[retRef].rows) = Len(snapshot.rows)
          /\ \A i \in 1..Len(snapshot.rows) :
                snapshot.rows[i]["age"].t = "nan" => store[retRef].rows[i]["age"] = NaN
    /\ (pc \in {"hd_done", "md_done"} /\ exc = NoExc) =>
          /\ IsFrame(retVal)
          /\ \A i \in 1..Len(retVal.rows) : retVal.rows[i]["age"].t # "nan"

C9_Witness ==
    /\ pc = "pd_done"
    /\ exc = NoExc
    /\ retRef # 0
    /\ Len(snapshot.rows) = 2
    /\ snapshot.rows[1]["age"] = NaN
    /\ store[retRef].rows[1]["age"] = NaN
    /\ store[retRef].rows[2]["age"].t = "int"

\* C10: on a file with no age of exactly 18 the two variants end the same
\* way, with the same DataFrame or the same kind of failure; when both
\* return, each row whose age was read as a keeps a for a < 18 and gets a + 1
\* for a > 18 in both, and for a = 18 handle_dataset gives 18 and
\* manage_data gives 19.
C10_VariantsDifferOnlyAt18 ==
    /\ (pc = "hd_done" /\ (entry.kind = "file" => ~HasAge18(entry.content))) =>
          LET m == manage_data(file_path, entry) IN
          exc.type = m.exc.type /\ retVal = m.ret
    /\ (pc = "md_done" /\ (entry.kind = "file" => ~HasAge18(entry.content))) =>
          LET h == handle_dataset(file_path, entry) IN
          exc.type = h.exc.type /\ retVal = h.ret
    /\ (pc \in {"hd_done", "md_done"} /\ VariantFile) =>
          LET kept == KeptAgeTokens(entry.content)
              h == handle_dataset(file_path, entry)
              m == manage_data(file_path, entry)
          IN /\ exc = NoExc
             /\ retVal = (IF pc = "hd_done" THEN h.ret ELSE m.ret)
             /\ Len(h.ret.rows) = Len(kept)
             /\ Len(m.ret.rows) = Len(kept)
             /\ \A k \in 1..Len(kept) :
                   LET a == ParseInt(kept[k]) IN
                   /\ a < 18 => (h.ret.rows[k]["age"] = IntCell(a)
                                 /\ m.ret.rows[k]["age"] = IntCell(a))
                   /\ a > 18 => (h.ret.rows[k]["age"] = IntCell(a + 1)
                                 /\ m.ret.rows[k]["age"] = IntCell(a + 1))
                   /\ a = 18 => (h.ret.rows[k]["age"] = IntCell(18)
                                 /\ m.ret.rows[k]["age"] = IntCell(19))

C10_Witness ==
    /\ pc = "hd_done"
    /\ VariantFile
    /\ HasAge18(entry.content)
    /\ exc = NoExc
    /\ \E k \in 1..Len(retVal.rows) :
          /\ retVal.rows[k]["age"] = IntCell(18)
          /\ manage_data(file_path, entry).ret.rows[k]["age"] = IntCell(19)

====
